---- MODULE Spec2Model ----
(***************************************************************************)
(* The queue / appointment engine of the coffee-shop assistant:            *)
(*   QueueManager         (src/app/models/queue.py)                        *)
(*   VirtualQueueService  (src/app/services/queue_service.py)              *)
(* Optional values are sequences of length at most one: <<>> is None and   *)
(* <<v>> is the value v.  Time is counted in minutes since midnight of     *)
(* day 0.                                                                  *)
(***************************************************************************)
EXTENDS Integers, Sequences, FiniteSets, TLC

VARIABLES
    current_queues,    \* QueueManager.current_queues: queue type -> list of QueueEntry
    available_tables,  \* QueueManager.available_tables: list of table numbers
    occupied_tables,   \* QueueManager.occupied_tables: table number -> queue_id
    appointments,      \* QueueManager.appointments: list of Appointment
    now,               \* datetime.utcnow()
    next_id,           \* the next fresh queue_id (uuid default factory)
    ret,               \* the last call: its name, the exception it raised, its return value
    polls,             \* the running process_appointment_reminders invocations
    calls,             \* the running VirtualQueueService.call_next_customer invocations
    outbox,            \* the notifications handed to the channel, counted
    context_manager,   \* ContextManager: its fields and the keys of the Redis server
    sessions           \* per session id: initialize_session called, messages added so far

vars == <<current_queues, available_tables, occupied_tables, appointments,
          now, next_id, ret, polls, calls, outbox, context_manager, sessions>>

queueVars == <<current_queues, available_tables, occupied_tables, next_id, calls>>
apptVars  == <<appointments, polls, outbox>>

----------------------------------------------------------------------------
(* Bounds of the model *)

MaxEntries == 3        \* queue entries created in one run
NumTables == 2         \* N: the tables the manager is constructed with
MaxAppointments == 2   \* appointments booked in one run
MaxPolls == 2          \* process_appointment_reminders invocations in flight
MaxCalls == 2          \* call_next_customer invocations in flight
MaxNotifications == 3  \* notifications recorded on one entry
MaxItems == 2          \* order items added in one run
MaxSessionMessages == 1  \* messages added to one session next to orders and preferences
MaxMessages == 22      \* messages added to the session whose history is followed
MaxForeignMessages == 1  \* messages added to another session meanwhile

----------------------------------------------------------------------------
(* Enumerations and inputs *)

None == <<>>
Some(v) == <<v>>

QueueType == {"walk_in", "appointment", "delivery", "takeaway", "dine_in"}

\* dict order of current_queues: the order of the enum, filled by __init__
QueueTypeOrder == <<"walk_in", "appointment", "delivery", "takeaway", "dine_in">>

WAITING == "waiting"
CALLED == "called"
COMPLETED == "completed"
CANCELLED == "cancelled"

\* inputs: the queue types entries are created for, and their priorities (0..10)
JoinTypes == {"walk_in", "dine_in"}
Priorities == {0, 5}

Tables == 1..NumTables

\* the queue_ids of the entries in the queues
LiveIds ==
    UNION {{current_queues[qt][i].queue_id : i \in 1..Len(current_queues[qt])} :
              qt \in QueueType}

\* queue_id arguments: the id of every entry in a queue, and 0, an id of no entry
KnownIds == {0} \cup LiveIds

\* table_number arguments of complete_service: None, 0, each table, a number of no table
TableArgs == {None} \cup {Some(t) : t \in 0..(NumTables + 1)}

Min(S) == CHOOSE x \in S : \A y \in S : x <= y

----------------------------------------------------------------------------
(* QueueEntry *)

QueueEntry(id, qt, prio) ==
    [ queue_id             |-> id,
      queue_type           |-> qt,
      status               |-> WAITING,
      priority             |-> prio,
      estimated_prep_time  |-> 5,
      estimated_ready_time |-> None,
      called_at            |-> None,
      completed_at         |-> None,
      original_position    |-> 0,
      current_position     |-> 0,
      notifications_sent   |-> <<>>,
      table_number         |-> None ]

\* mutant: the entries ahead shorten the wait
EntryWaitTimeCountdown(entry, queue_ahead, avg_service_time) ==
    entry.estimated_prep_time - queue_ahead * avg_service_time

\* QueueEntry.get_estimated_wait_time
EntryWaitTime(entry, queue_ahead, avg_service_time) ==
    queue_ahead * avg_service_time + entry.estimated_prep_time

\* QueueEntry.add_notification
AddNotification(entry, type) ==
    [entry EXCEPT !.notifications_sent =
        Append(@, [type |-> type, sent_at |-> now])]

average_service_time == 5

----------------------------------------------------------------------------
(* QueueManager: pure parts *)

\* list.insert(position, entry), position 0-based
ListInsert(queue, position, entry) ==
    SubSeq(queue, 1, position) \o <<entry>> \o SubSeq(queue, position + 1, Len(queue))

\* mutant: the head of the list is dropped, whichever index was asked for
ListRemoveHead(queue, i) == Tail(queue)

\* list.pop(i), i 1-based here
ListRemove(queue, i) ==
    SubSeq(queue, 1, i - 1) \o SubSeq(queue, i + 1, Len(queue))

\* mutant: every entry goes to the front
InsertPositionFront(queue, priority) == 0

\* mutant: ties go ahead of earlier arrivals
InsertPositionTiesFirst(queue, priority) ==
    LET lower == {i \in 1..Len(queue) : priority >= queue[i].priority}
    IN  IF lower = {} THEN Len(queue) ELSE Min(lower) - 1

\* add_to_queue's scan: the 0-based index of the first entry of strictly lower
\* priority, the length of the queue when there is none
InsertPosition(queue, priority) ==
    LET lower == {i \in 1..Len(queue) : priority > queue[i].priority}
    IN  IF lower = {} THEN Len(queue) ELSE Min(lower) - 1

\* mutant: positions are left as they were
UpdatePositionsStale(queue) == queue

\* _update_positions
UpdatePositions(queue) ==
    [i \in 1..Len(queue) |-> [queue[i] EXCEPT !.current_position = i]]

\* the first index of queue_id in a queue, 0 when it is not there
IndexOf(queue, queue_id) ==
    LET hits == {i \in 1..Len(queue) : queue[i].queue_id = queue_id}
    IN  IF hits = {} THEN 0 ELSE Min(hits)

\* the first queue, in dict order, that holds queue_id; <<>> when none does
FindQueue(queues, queue_id) ==
    LET hits == {k \in 1..Len(QueueTypeOrder) :
                    IndexOf(queues[QueueTypeOrder[k]], queue_id) > 0}
    IN  IF hits = {} THEN None ELSE Some(QueueTypeOrder[Min(hits)])

InSomeQueue(queues, queue_id) == FindQueue(queues, queue_id) # None

\* mutant: the 0-based insertion index is recorded and returned
AddToQueueReturnsIndex(queues, entry) ==
    LET queue    == queues[entry.queue_type]
        position == InsertPosition(queue, entry.priority)
        placed   == [entry EXCEPT !.original_position = position,
                                  !.current_position = position]
    IN  [ queues   |-> [queues EXCEPT ![entry.queue_type] =
                           UpdatePositions(ListInsert(queue, position, placed))],
          position |-> position ]

\* add_to_queue: the queues after the call and the position returned
AddToQueueResult(queues, entry) ==
    LET queue    == queues[entry.queue_type]
        position == InsertPosition(queue, entry.priority)
        placed   == [entry EXCEPT !.original_position = position + 1,
                                  !.current_position = position + 1]
    IN  [ queues   |-> [queues EXCEPT ![entry.queue_type] =
                           UpdatePositions(ListInsert(queue, position, placed))],
          position |-> position + 1 ]

\* remove_from_queue: the queues after the call and the entry returned
RemoveResult(queues, queue_id) ==
    LET found == FindQueue(queues, queue_id)
    IN  IF found = None
        THEN [queues |-> queues, entry |-> None]
        ELSE LET qt == found[1]
                 i  == IndexOf(queues[qt], queue_id)
             IN  [ queues |-> [queues EXCEPT ![qt] = UpdatePositions(ListRemove(@, i))],
                   entry  |-> Some(queues[qt][i]) ]

\* get_queue_position
GetQueuePosition(queues, queue_id) ==
    LET found == FindQueue(queues, queue_id)
    IN  IF found = None THEN None ELSE Some(IndexOf(queues[found[1]], queue_id))

\* mutant: the wait is computed from the position the entry joined at
GetEstimatedWaitTimeAtJoin(queues, queue_id) ==
    LET found == FindQueue(queues, queue_id)
    IN  IF found = None THEN None
        ELSE LET e == queues[found[1]][IndexOf(queues[found[1]], queue_id)]
             IN  Some(EntryWaitTime(e, e.original_position - 1, average_service_time))

\* QueueManager.get_estimated_wait_time
GetEstimatedWaitTime(queues, queue_id) ==
    LET found == FindQueue(queues, queue_id)
    IN  IF found = None THEN None
        ELSE LET i == IndexOf(queues[found[1]], queue_id)
             IN  Some(EntryWaitTime(queues[found[1]][i], i - 1, average_service_time))

\* VirtualQueueService.get_queue_status: None when no queue holds queue_id, else
\* the status dict of the first entry found
GetQueueStatus(queues, queue_id) ==
    LET found == FindQueue(queues, queue_id)
    IN  IF found = None THEN None
        ELSE LET entry == queues[found[1]][IndexOf(queues[found[1]], queue_id)]
             IN  Some([ queue_id             |-> queue_id,
                        status               |-> entry.status,
                        position             |-> GetQueuePosition(queues, queue_id),
                        estimated_wait_time  |-> GetEstimatedWaitTime(queues, queue_id),
                        estimated_ready_time |-> entry.estimated_ready_time,
                        table_number         |-> entry.table_number ])

\* mutant: the entry is marked cancelled where it is and stays in its queue
CancelResultKeepsEntry(queues, queue_id) ==
    LET found == FindQueue(queues, queue_id)
    IN  IF found = None
        THEN [queues |-> queues, entry |-> None, ok |-> FALSE]
        ELSE LET qt == found[1]
                 i  == IndexOf(queues[qt], queue_id)
             IN  [ queues |-> [queues EXCEPT ![qt][i].status = CANCELLED],
                   entry  |-> Some([queues[qt][i] EXCEPT !.status = CANCELLED]),
                   ok     |-> TRUE ]

\* cancel_queue_entry: the queues after the call, the entry removed, now marked
\* cancelled, and the value returned
CancelResult(queues, queue_id) ==
    LET r == RemoveResult(queues, queue_id)
    IN  [ queues |-> r.queues,
          entry  |-> IF r.entry = None THEN None
                     ELSE Some([r.entry[1] EXCEPT !.status = CANCELLED]),
          ok     |-> r.entry # None ]

\* mutant: the front entry is marked completed when it is called
CallFrontCompletes(queue) ==
    [queue EXCEPT ![1] = [@ EXCEPT !.status = COMPLETED, !.called_at = Some(now)]]

\* mutant: every entry of the queue is marked called
CallFrontMarksAll(queue) ==
    [i \in 1..Len(queue) |-> [queue[i] EXCEPT !.status = CALLED, !.called_at = Some(now)]]

\* call_next_customer on a non-empty queue: the front entry becomes called and
\* called_at is stamped; nothing is removed
CallFront(queue) ==
    [queue EXCEPT ![1] = [@ EXCEPT !.status = CALLED, !.called_at = Some(now)]]

\* mutant: entries already called are skipped, the first waiting entry is called
CallNextSkipsCalled(queues, qt) ==
    LET waiting == {i \in 1..Len(queues[qt]) : queues[qt][i].status = WAITING}
    IN  IF waiting = {} THEN [ queues |-> queues, entry |-> None ]
        ELSE LET i == Min(waiting)
                 e == [queues[qt][i] EXCEPT !.status = CALLED, !.called_at = Some(now)]
             IN  [ queues |-> [queues EXCEPT ![qt][i] = e], entry |-> Some(e) ]

\* call_next_customer: the queues after the call and the entry returned
CallNextResult(queues, qt) ==
    IF queues[qt] # <<>>
    THEN [ queues |-> [queues EXCEPT ![qt] = CallFront(@)],
           entry  |-> Some(CallFront(queues[qt])[1]) ]
    ELSE [ queues |-> queues, entry |-> None ]

\* the table map with table t recorded against queue_id
Occupy(occupied, t, queue_id) ==
    [k \in (DOMAIN occupied) \cup {t} |-> IF k = t THEN queue_id ELSE occupied[k]]

\* del occupied_tables[t]
Vacate(occupied, t) == [k \in (DOMAIN occupied) \ {t} |-> occupied[k]]

\* assign_table's loop: in every queue the first entry with queue_id gets the table
RecordTable(queues, queue_id, t) ==
    [qt \in QueueType |->
        LET i == IndexOf(queues[qt], queue_id)
        IN  IF i = 0 THEN queues[qt]
            ELSE [queues[qt] EXCEPT ![i] = [@ EXCEPT !.table_number = Some(t)]]]

\* preference arguments of assign_table: none, or a seating preference
Preferences == {None, Some("window"), Some("quiet")}

\* mutant: the last table of the pool is handed out
AssignTableTakesLast(queues, available, occupied, queue_id) ==
    IF available = <<>>
    THEN [ queues |-> queues, available |-> available, occupied |-> occupied,
           table |-> None ]
    ELSE LET t == available[Len(available)]
         IN  [ queues    |-> RecordTable(queues, queue_id, t),
               available |-> SubSeq(available, 1, Len(available) - 1),
               occupied  |-> Occupy(occupied, t, queue_id),
               table     |-> Some(t) ]

\* mutant: with the pool empty, table 1 is handed out again
AssignTableReusesFirst(queues, available, occupied, queue_id) ==
    LET t == IF available = <<>> THEN 1 ELSE Head(available)
    IN  [ queues    |-> RecordTable(queues, queue_id, t),
          available |-> IF available = <<>> THEN <<>> ELSE Tail(available),
          occupied  |-> Occupy(occupied, t, queue_id),
          table     |-> Some(t) ]

\* mutant: the table handed out stays in the pool
AssignTableKeepsPool(queues, available, occupied, queue_id) ==
    IF available = <<>>
    THEN [ queues |-> queues, available |-> available, occupied |-> occupied,
           table |-> None ]
    ELSE LET t == Head(available)
         IN  [ queues    |-> RecordTable(queues, queue_id, t),
               available |-> available,
               occupied  |-> Occupy(occupied, t, queue_id),
               table     |-> Some(t) ]

\* assign_table: the queues and the table pool after the call, the table returned
AssignTableResult(queues, available, occupied, queue_id) ==
    IF available = <<>>
    THEN [ queues |-> queues, available |-> available, occupied |-> occupied,
           table |-> None ]
    ELSE LET t == Head(available)
         IN  [ queues    |-> RecordTable(queues, queue_id, t),
               available |-> Tail(available),
               occupied  |-> Occupy(occupied, t, queue_id),
               table     |-> Some(t) ]

\* mutant: the table goes back to the pool whether or not it is occupied
ReleasesTableAlways(occupied, table_number) ==
    table_number # None /\ table_number[1] # 0

\* complete_service's test: `table_number and table_number in self.occupied_tables`
ReleasesTable(occupied, table_number) ==
    table_number # None /\ table_number[1] # 0 /\ table_number[1] \in DOMAIN occupied

\* mutant: the removed entry is returned as it was
MarkCompletedNot(entry) == entry

\* complete_service on the removed entry: status completed, completed_at stamped
MarkCompleted(entry) ==
    [entry EXCEPT !.status = COMPLETED, !.completed_at = Some(now)]

\* mutant: the table is released whether or not an entry was found
CompleteServiceReleasesUnfound(queues, available, occupied, queue_id, table_number) ==
    LET r == RemoveResult(queues, queue_id)
        release == ReleasesTable(occupied, table_number)
    IN  [ queues    |-> r.queues,
          entry     |-> IF r.entry = None THEN None ELSE Some(MarkCompleted(r.entry[1])),
          available |-> IF release THEN Append(available, table_number[1]) ELSE available,
          occupied  |-> IF release THEN Vacate(occupied, table_number[1]) ELSE occupied ]

\* complete_service: the queues and the table pool after the call, the entry returned
CompleteServiceResult(queues, available, occupied, queue_id, table_number) ==
    LET r == RemoveResult(queues, queue_id)
        release == r.entry # None /\ ReleasesTable(occupied, table_number)
    IN  [ queues    |-> r.queues,
          entry     |-> IF r.entry = None THEN None ELSE Some(MarkCompleted(r.entry[1])),
          available |-> IF release THEN Append(available, table_number[1]) ELSE available,
          occupied  |-> IF release THEN Vacate(occupied, table_number[1]) ELSE occupied ]

----------------------------------------------------------------------------
(* Initial state: QueueManager() with N tables, VirtualQueueService() *)

\* session ids passed to the ContextManager
SessionIds == {"A", "B", "C"}

\* ContextManager.default_context, the fields the operations here read or write
default_context ==
    [ conversation_history |-> <<>>,
      current_order        |-> [items |-> <<>>, total |-> 0],
      customer_preferences |-> <<>> ]

\* the clock starts on day 0 at 08:40
InitNow == 8 * 60 + 40

Init ==
    /\ current_queues = [qt \in QueueType |-> <<>>]
    /\ available_tables = [i \in 1..NumTables |-> i]
    /\ occupied_tables = <<>>
    /\ appointments = <<>>
    /\ now = InitNow
    /\ next_id = 1
    /\ ret = [op |-> "init", err |-> "", val |-> None]
    /\ polls = [p \in 1..MaxPolls |-> [pc |-> "idle", i |-> 0]]
    /\ calls = [p \in 1..MaxCalls |-> [pc |-> "idle", id |-> 0, table |-> None]]
    /\ outbox = <<>>
    /\ context_manager = [ redis_client    |-> FALSE,
                           redis           |-> <<>>,
                           memory_store    |-> None,
                           default_context |-> default_context ]
    /\ sessions = [s \in SessionIds |-> [initialized |-> FALSE, messages |-> 0]]

Return(op, val) == ret' = [op |-> op, err |-> "", val |-> val]
Raise(op, err)  == ret' = [op |-> op, err |-> err, val |-> None]

----------------------------------------------------------------------------
(* QueueManager operations *)

\* QueueManager.add_to_queue(entry), entry a new QueueEntry
AddToQueue(qt, prio) ==
    /\ LET r == AddToQueueResult(current_queues, QueueEntry(next_id, qt, prio))
       IN  /\ current_queues' = r.queues
           /\ Return("add_to_queue", Some(r.position))
    /\ next_id' = next_id + 1
    /\ UNCHANGED <<context_manager, sessions, available_tables, occupied_tables, now, calls, apptVars>>

\* QueueManager.remove_from_queue(queue_id)
RemoveFromQueue(queue_id) ==
    /\ LET r == RemoveResult(current_queues, queue_id)
       IN  /\ current_queues' = r.queues
           /\ Return("remove_from_queue", r.entry)
    /\ UNCHANGED <<context_manager, sessions, available_tables, occupied_tables, next_id, now, calls, apptVars>>

\* QueueManager.call_next_customer(queue_type)
CallNextCustomer(qt) ==
    /\ LET r == CallNextResult(current_queues, qt)
       IN  /\ current_queues' = r.queues
           /\ Return("call_next_customer", r.entry)
    /\ UNCHANGED <<context_manager, sessions, available_tables, occupied_tables, next_id, now, calls, apptVars>>

\* QueueManager.complete_service(queue_id, table_number)
CompleteService(queue_id, table_number) ==
    /\ LET r == CompleteServiceResult(current_queues, available_tables,
                                      occupied_tables, queue_id, table_number)
       IN  /\ current_queues' = r.queues
           /\ available_tables' = r.available
           /\ occupied_tables' = r.occupied
           /\ Return("complete_service", r.entry)
    /\ UNCHANGED <<context_manager, sessions, next_id, now, calls, apptVars>>

\* QueueManager.assign_table(queue_id, preference): the body never reads preference
AssignTable(queue_id, preference) ==
    /\ LET r == AssignTableResult(current_queues, available_tables,
                                  occupied_tables, queue_id)
       IN  /\ current_queues' = r.queues
           /\ available_tables' = r.available
           /\ occupied_tables' = r.occupied
           /\ Return("assign_table", r.table)
    /\ UNCHANGED <<context_manager, sessions, next_id, now, calls, apptVars>>

\* VirtualQueueService.cancel_queue_entry(queue_id, reason): the entry removed is
\* marked cancelled and dropped, the call returns whether there was one
CancelQueueEntry(queue_id) ==
    /\ LET r == CancelResult(current_queues, queue_id)
       IN  /\ current_queues' = r.queues
           /\ Return("cancel_queue_entry", Some(r.ok))
    /\ UNCHANGED <<context_manager, sessions, available_tables, occupied_tables, next_id, now, calls, apptVars>>

\* The queue operations of the manager: joins of any priority, removals, calls
Next ==
    \/ \E qt \in JoinTypes, prio \in Priorities :
          next_id <= MaxEntries /\ AddToQueue(qt, prio)
    \/ \E id \in KnownIds : RemoveFromQueue(id)
    \/ \E qt \in QueueType : CallNextCustomer(qt)
    \/ \E id \in KnownIds, t \in TableArgs : CompleteService(id, t)
    \/ \E id \in KnownIds : CancelQueueEntry(id)

Spec == Init /\ [][Next]_vars

\* The table pool of the manager: joins to the dine-in queue, calls, table
\* assignment and completion
TableJoinTypes == {"dine_in"}

NextTables ==
    \/ \E qt \in TableJoinTypes : next_id < MaxEntries /\ AddToQueue(qt, 0)
    \/ \E qt \in QueueType : CallNextCustomer(qt)
    \/ \E id \in KnownIds, t \in TableArgs : CompleteService(id, t)
    \/ \E id \in KnownIds, pref \in Preferences : AssignTable(id, pref)

SpecTables == Init /\ [][NextTables]_vars

\* queue_id arguments of the lookups: 0, an id of no entry, and every id given
\* out so far, in a queue or not any more
IssuedIds == 0..(next_id - 1)

\* inputs of the lookups: the estimated_prep_time an entry is built with
PrepTimes == {5, 15}
LookupJoinTypes == {"walk_in"}

\* QueueManager.add_to_queue(entry), entry a new QueueEntry with its own
\* estimated_prep_time
AddEntry(qt, prio, prep) ==
    /\ LET entry == [QueueEntry(next_id, qt, prio) EXCEPT !.estimated_prep_time = prep]
           r == AddToQueueResult(current_queues, entry)
       IN  /\ current_queues' = r.queues
           /\ Return("add_to_queue", Some(r.position))
    /\ next_id' = next_id + 1
    /\ UNCHANGED <<context_manager, sessions, available_tables, occupied_tables, now, calls, apptVars>>

\* QueueManager.get_queue_position(queue_id)
QueryQueuePosition(queue_id) ==
    /\ Return("get_queue_position", GetQueuePosition(current_queues, queue_id))
    /\ UNCHANGED <<context_manager, sessions, queueVars, now, apptVars>>

\* QueueManager.get_estimated_wait_time(queue_id)
QueryEstimatedWaitTime(queue_id) ==
    /\ Return("get_estimated_wait_time", GetEstimatedWaitTime(current_queues, queue_id))
    /\ UNCHANGED <<context_manager, sessions, queueVars, now, apptVars>>

\* VirtualQueueService.get_queue_status(queue_id)
QueryQueueStatus(queue_id) ==
    /\ Return("get_queue_status", GetQueueStatus(current_queues, queue_id))
    /\ UNCHANGED <<context_manager, sessions, queueVars, now, apptVars>>

\* Joins with a prep time, cancellation, calls and the lookups
NextLookup ==
    \/ \E qt \in LookupJoinTypes, prio \in Priorities, prep \in PrepTimes :
          next_id <= MaxEntries /\ AddEntry(qt, prio, prep)
    \/ \E qt \in LookupJoinTypes : CallNextCustomer(qt)
    \/ \E id \in IssuedIds : CancelQueueEntry(id)
    \/ \E id \in IssuedIds : QueryQueuePosition(id)
    \/ \E id \in IssuedIds : QueryEstimatedWaitTime(id)
    \/ \E id \in IssuedIds : QueryQueueStatus(id)

SpecLookup == Init /\ [][NextLookup]_vars

\* The operations that take a queue_id, called with ids in a queue and in none,
\* over a table pool in use
NextNotFound ==
    \/ \E qt \in TableJoinTypes : next_id < MaxEntries /\ AddToQueue(qt, 0)
    \/ \E id \in LiveIds, pref \in Preferences : AssignTable(id, pref)
    \/ \E id \in IssuedIds : RemoveFromQueue(id)
    \/ \E id \in IssuedIds, t \in TableArgs : CompleteService(id, t)
    \/ \E id \in IssuedIds : CancelQueueEntry(id)
    \/ \E id \in IssuedIds : QueryQueueStatus(id)
    \/ \E id \in IssuedIds : QueryEstimatedWaitTime(id)

SpecNotFound == Init /\ [][NextNotFound]_vars

----------------------------------------------------------------------------
(* VirtualQueueService: queue operations *)

\* mutant: the wait time is computed with the entry itself counted as ahead
JoinQueueResultCountsSelf(queues, id, qt) ==
    LET r         == AddToQueueResult(queues, QueueEntry(id, qt, 0))
        wait_time == EntryWaitTime(r.queues[qt][r.position], r.position,
                                   average_service_time)
        joined    == AddNotification(
                        [r.queues[qt][r.position] EXCEPT
                            !.estimated_ready_time = Some(now + wait_time)],
                        "queue_joined")
    IN  [ queues    |-> [r.queues EXCEPT ![qt][r.position] = joined],
          entry     |-> Some(joined),
          position  |-> r.position,
          wait_time |-> wait_time ]

\* join_queue: the entry is created with the default priority, added, given its
\* estimated_ready_time and the queue_joined notification; position and
\* wait_time are the parameters of that notification
JoinQueueResult(queues, id, qt) ==
    LET r         == AddToQueueResult(queues, QueueEntry(id, qt, 0))
        wait_time == EntryWaitTime(r.queues[qt][r.position], r.position - 1,
                                   average_service_time)
        joined    == AddNotification(
                        [r.queues[qt][r.position] EXCEPT
                            !.estimated_ready_time = Some(now + wait_time)],
                        "queue_joined")
    IN  [ queues    |-> [r.queues EXCEPT ![qt][r.position] = joined],
          entry     |-> Some(joined),
          position  |-> r.position,
          wait_time |-> wait_time ]

\* one more notification with this template and these parameters, formatted by
\* _send_notification and handed to the channel
EmitToEntry(box, template, params) ==
    LET key == <<template, params>>
    IN  IF key \in DOMAIN box THEN [box EXCEPT ![key] = @ + 1] ELSE box @@ (key :> 1)

\* VirtualQueueService.join_queue(customer_name, queue_type, ...)
JoinQueue(qt) ==
    /\ LET r == JoinQueueResult(current_queues, next_id, qt)
       IN  /\ current_queues' = r.queues
           /\ outbox' = EmitToEntry(outbox, "queue_joined",
                                    <<next_id, r.position, r.wait_time>>)
           /\ Return("join_queue", r.entry)
    /\ next_id' = next_id + 1
    /\ UNCHANGED <<context_manager, sessions, available_tables, occupied_tables, now, calls, appointments, polls>>

\* VirtualQueueService.call_next_customer(queue_type): the manager's call, a table
\* for a dine-in entry, the your_turn notification with the table as parameter
ServiceCallNextCustomer(qt) ==
    /\ LET called == CallNextResult(current_queues, qt)
       IN  IF called.entry = None
           THEN /\ Return("service.call_next_customer", None)
                /\ UNCHANGED <<current_queues, available_tables, occupied_tables, outbox>>
           ELSE LET id == called.entry[1].queue_id
                    a  == IF qt = "dine_in"
                          THEN AssignTableResult(called.queues, available_tables,
                                                 occupied_tables, id)
                          ELSE [ queues |-> called.queues, available |-> available_tables,
                                 occupied |-> occupied_tables, table |-> None ]
                    i  == IndexOf(a.queues[qt], id)
                    notified == AddNotification(a.queues[qt][i], "your_turn")
                IN  /\ current_queues' = [a.queues EXCEPT ![qt][i] = notified]
                    /\ available_tables' = a.available
                    /\ occupied_tables' = a.occupied
                    /\ outbox' = EmitToEntry(outbox, "your_turn", <<id, a.table>>)
                    /\ Return("service.call_next_customer", Some(notified))
    /\ UNCHANGED <<context_manager, sessions, next_id, now, calls, appointments, polls>>

\* VirtualQueueService.complete_service(queue_id): the manager's complete_service
\* with queue_id alone, table_number left at its default
ServiceCompleteService(queue_id) ==
    /\ LET r == CompleteServiceResult(current_queues, available_tables, occupied_tables,
                    queue_id, None)
       IN  /\ current_queues' = r.queues
           /\ available_tables' = r.available
           /\ occupied_tables' = r.occupied
           /\ Return("service.complete_service", r.entry)
    /\ UNCHANGED <<context_manager, sessions, next_id, now, calls, apptVars>>

\* the front entry of a queue can still record a notification
CanNotifyFront(qt) ==
    current_queues[qt] # <<>> =>
        Len(current_queues[qt][1].notifications_sent) < MaxNotifications

\* The service's queue interface
NextService ==
    \/ \E qt \in JoinTypes : next_id <= MaxEntries /\ JoinQueue(qt)
    \/ \E qt \in QueueType : CanNotifyFront(qt) /\ ServiceCallNextCustomer(qt)
    \/ \E id \in KnownIds : ServiceCompleteService(id)
    \/ \E id \in KnownIds : CancelQueueEntry(id)

SpecService == Init /\ [][NextService]_vars

----------------------------------------------------------------------------
(* VirtualQueueService.update_queue_progress *)

\* mutant: the cooldown is never in force
IsReadyForNotificationAlways(entry, notification_type, cooldown_minutes) == TRUE

\* QueueEntry.is_ready_for_notification: no notification of this type was
\* recorded later than cooldown_minutes ago
IsReadyForNotification(entry, notification_type, cooldown_minutes) ==
    \A k \in 1..Len(entry.notifications_sent) :
        ~ /\ entry.notifications_sent[k].type = notification_type
          /\ entry.notifications_sent[k].sent_at > now - cooldown_minutes

\* the body of update_queue_progress's loop for the entry at index i (1-based,
\* the code's i + 1): the entry afterwards and the notification sent, if any
ProgressOfEntry(entry, i) ==
    IF entry.status # WAITING
    THEN [ entry |-> entry, sent |-> None ]
    ELSE IF entry.current_position - i >= 2
    THEN LET moved     == [entry EXCEPT !.current_position = i]
             wait_time == EntryWaitTime(moved, i - 1, average_service_time)
         IN  IF IsReadyForNotification(moved, "progress", 5)
             THEN [ entry |-> AddNotification(moved, "queue_progress"),
                    sent  |-> Some(<<"queue_progress", <<entry.queue_id, i, wait_time>>>>) ]
             ELSE [ entry |-> moved, sent |-> None ]
    ELSE IF i <= 2 /\ IsReadyForNotification(entry, "ready_soon", 10)
    THEN [ entry |-> AddNotification(entry, "ready_soon"),
           sent  |-> Some(<<"ready_soon", <<entry.queue_id>>>>) ]
    ELSE [ entry |-> entry, sent |-> None ]

\* update_queue_progress over every queue: the queues afterwards and the
\* notifications sent, one at most for an entry
UpdateQueueProgressResult(queues) ==
    [ queues |-> [qt \in QueueType |->
                    [i \in 1..Len(queues[qt]) |-> ProgressOfEntry(queues[qt][i], i).entry]],
      sent   |-> UNION {{ProgressOfEntry(queues[qt][i], i).sent[1] :
                            i \in {j \in 1..Len(queues[qt]) :
                                      ProgressOfEntry(queues[qt][j], j).sent # None}} :
                        qt \in QueueType} ]

\* one more notification for each of these templates and parameters
EmitAll(box, keys) ==
    [key \in (DOMAIN box) \cup keys |->
        (IF key \in DOMAIN box THEN box[key] ELSE 0) + (IF key \in keys THEN 1 ELSE 0)]

\* VirtualQueueService.update_queue_progress(), run to its end: the senders
\* return without suspending
UpdateQueueProgress ==
    /\ LET r == UpdateQueueProgressResult(current_queues)
       IN  /\ current_queues' = r.queues
           /\ outbox' = EmitAll(outbox, r.sent)
    /\ Return("update_queue_progress", None)
    /\ UNCHANGED <<context_manager, sessions, available_tables, occupied_tables, next_id, now, calls,
                   appointments, polls>>

\* every entry in a queue can still record a notification
CanNotifyAll ==
    \A qt \in QueueType : \A i \in 1..Len(current_queues[qt]) :
        Len(current_queues[qt][i].notifications_sent) < MaxNotifications

----------------------------------------------------------------------------
(* VirtualQueueService.call_next_customer, invocations interleaved at the send *)

\* the front entry of a queue can still record the notifications of the
\* invocations suspended on it and one more
CanCallFront(qt) ==
    current_queues[qt] # <<>> =>
        Len(current_queues[qt][1].notifications_sent)
           + Cardinality({q \in 1..MaxCalls :
                             /\ calls[q].pc = "send"
                             /\ calls[q].id = current_queues[qt][1].queue_id})
           < MaxNotifications

\* an invocation of call_next_customer starts: the manager's call, assign_table
\* for dine-in, the your_turn message formatted and handed to the channel; it
\* suspends in the send.  On an empty queue it returns None at once.
CallNextCustomerBegin(p, qt) ==
    /\ calls[p].pc = "idle"
    /\ LET called == CallNextResult(current_queues, qt)
       IN  IF called.entry = None
           THEN /\ Return("service.call_next_customer", None)
                /\ calls' = [calls EXCEPT ![p] = [pc |-> "idle", id |-> 0, table |-> None]]
                /\ UNCHANGED <<current_queues, available_tables, occupied_tables, outbox>>
           ELSE LET id == called.entry[1].queue_id
                    a  == IF qt = "dine_in"
                          THEN AssignTableResult(called.queues, available_tables,
                                                 occupied_tables, id)
                          ELSE [ queues |-> called.queues, available |-> available_tables,
                                 occupied |-> occupied_tables, table |-> None ]
                IN  /\ current_queues' = a.queues
                    /\ available_tables' = a.available
                    /\ occupied_tables' = a.occupied
                    /\ outbox' = EmitToEntry(outbox, "your_turn", <<id, a.table>>)
                    /\ calls' = [calls EXCEPT ![p] =
                                    [pc |-> "send", id |-> id, table |-> a.table]]
                    /\ UNCHANGED ret
    /\ UNCHANGED <<context_manager, sessions, next_id, now, appointments, polls>>

\* the send returns: the notification is recorded on the entry and the entry
\* is returned as it is now.  The entry is in its queue: nothing removes an
\* entry while invocations are in flight here.
CallNextCustomerResume(p) ==
    /\ calls[p].pc = "send"
    /\ InSomeQueue(current_queues, calls[p].id)
    /\ LET qt == FindQueue(current_queues, calls[p].id)[1]
           i  == IndexOf(current_queues[qt], calls[p].id)
           notified == AddNotification(current_queues[qt][i], "your_turn")
       IN  /\ current_queues' = [current_queues EXCEPT ![qt][i] = notified]
           /\ Return("service.call_next_customer", Some(notified))
    /\ calls' = [calls EXCEPT ![p].pc = "idle"]
    /\ UNCHANGED <<context_manager, sessions, available_tables, occupied_tables, next_id, now, apptVars>>

\* Joins of any priority to the dine-in queue and concurrent calls
NextCalls ==
    \/ \E qt \in TableJoinTypes, prio \in Priorities :
          next_id <= MaxEntries /\ AddToQueue(qt, prio)
    \/ \E p \in 1..MaxCalls, qt \in TableJoinTypes :
          CanCallFront(qt) /\ CallNextCustomerBegin(p, qt)
    \/ \E p \in 1..MaxCalls : CallNextCustomerResume(p)

SpecCalls == Init /\ [][NextCalls]_vars

----------------------------------------------------------------------------
(* Appointments *)

Day1 == 24 * 60

\* inputs of schedule_appointment: start times on day 1 (07:45, 09:00, 09:15,
\* 09:30, 20:00) and durations in minutes (0 is refused by the field constraint
\* of Appointment.duration_minutes)
StartTimes == {Day1 + 7 * 60 + 45, Day1 + 9 * 60, Day1 + 9 * 60 + 15,
               Day1 + 9 * 60 + 30, Day1 + 20 * 60}
Durations == {0, 15, 60}

\* the instants the clock is sampled at.  For an appointment on day 1 at 09:00
\* the 24h window is day 0 08:45..09:15 and the 1h window day 1 07:45..08:15,
\* both open; for one at 09:15 they are a quarter of an hour later.
\* Day 0: 08:40, 08:50, 09:10, 09:15.  Day 1: 08:00, 08:10.
Instants == {InitNow, InitNow + 10, InitNow + 30, InitNow + 35,
             Day1 + 8 * 60, Day1 + 8 * 60 + 10}

Abs(x) == IF x < 0 THEN -x ELSE x

\* datetime.hour
Hour(t) == (t % (24 * 60)) \div 60

\* mutant: the appointment is built with the default status
AppointmentPending(start, duration) ==
    [ scheduled_time    |-> start,
      duration_minutes  |-> duration,
      status            |-> "pending",
      reminder_sent_24h |-> FALSE,
      reminder_sent_1h  |-> FALSE ]

Appointment(start, duration) ==
    [ scheduled_time    |-> start,
      duration_minutes  |-> duration,
      status            |-> "confirmed",
      reminder_sent_24h |-> FALSE,
      reminder_sent_1h  |-> FALSE ]

\* the field constraint of Appointment.duration_minutes
ValidDuration(duration) == duration >= 15 /\ duration <= 240

\* mutant: only a start inside an existing booking counts as a conflict
OverlapsStartOnly(start_time, end_time, apt_start, apt_end) ==
    start_time >= apt_start /\ start_time < apt_end

\* the overlap test of _is_time_slot_available
Overlaps(start_time, end_time, apt_start, apt_end) ==
    start_time < apt_end /\ end_time > apt_start

\* mutant: only the opening hour is tested
IsTimeSlotAvailableNoClosing(appts, start_time, duration_minutes) ==
    LET end_time == start_time + duration_minutes
    IN  /\ \A k \in 1..Len(appts) :
              \/ appts[k].status = "cancelled"
              \/ ~Overlaps(start_time, end_time, appts[k].scheduled_time,
                           appts[k].scheduled_time + appts[k].duration_minutes)
        /\ ~(Hour(start_time) < 8)

\* VirtualQueueService._is_time_slot_available
IsTimeSlotAvailable(appts, start_time, duration_minutes) ==
    LET end_time == start_time + duration_minutes
    IN  /\ \A k \in 1..Len(appts) :
              \/ appts[k].status = "cancelled"
              \/ ~Overlaps(start_time, end_time, appts[k].scheduled_time,
                           appts[k].scheduled_time + appts[k].duration_minutes)
        /\ ~(Hour(start_time) < 8 \/ Hour(start_time) >= 20)

\* one more notification with this template for this appointment
Emit(box, template, k) ==
    LET key == <<template, k>>
    IN  IF key \in DOMAIN box THEN [box EXCEPT ![key] = @ + 1] ELSE box @@ (key :> 1)

Sent(box, template, k) ==
    IF <<template, k>> \in DOMAIN box THEN box[<<template, k>>] ELSE 0

\* VirtualQueueService.schedule_appointment(..., scheduled_time, duration_minutes)
ScheduleAppointment(start, duration) ==
    /\ IF ~IsTimeSlotAvailable(appointments, start, duration)
       THEN /\ Raise("schedule_appointment", "ValueError")
            /\ UNCHANGED <<appointments, outbox>>
       ELSE IF ~ValidDuration(duration)
       THEN /\ Raise("schedule_appointment", "ValidationError")
            /\ UNCHANGED <<appointments, outbox>>
       ELSE /\ appointments' = Append(appointments, Appointment(start, duration))
            /\ outbox' = Emit(outbox, "appointment_confirmed", Len(appointments) + 1)
            /\ Return("schedule_appointment", Some(Appointment(start, duration)))
    /\ UNCHANGED <<context_manager, sessions, queueVars, now, polls>>

\* Appointment.should_send_reminder(hours_before)
ShouldSendReminder(appt, hours_before) ==
    Abs((appt.scheduled_time - now) - hours_before * 60) < 15

\* process_appointment_reminders from appointment k on, at the 24h test
\* (phase 24) or the 1h test (phase 1): where the invocation next suspends in a
\* send, or "idle" when the loop ends
RECURSIVE ReminderScan(_, _, _)
ReminderScan(appts, k, phase) ==
    IF k > Len(appts) THEN [pc |-> "idle", i |-> 0]
    ELSE IF appts[k].status # "confirmed" THEN ReminderScan(appts, k + 1, 24)
    ELSE IF phase = 24
    THEN IF ~appts[k].reminder_sent_24h /\ ShouldSendReminder(appts[k], 24)
         THEN [pc |-> "send_24h", i |-> k]
         ELSE ReminderScan(appts, k, 1)
    ELSE IF ~appts[k].reminder_sent_1h /\ ShouldSendReminder(appts[k], 1)
         THEN [pc |-> "send_1h", i |-> k]
         ELSE ReminderScan(appts, k + 1, 24)

\* the notification an invocation hands to the channel as it suspends
EmitReminder(box, at) ==
    IF at.pc = "send_24h" THEN Emit(box, "appointment_reminder_24h", at.i)
    ELSE IF at.pc = "send_1h" THEN Emit(box, "appointment_reminder_1h", at.i)
    ELSE box

\* an invocation of process_appointment_reminders starts and runs to its first
\* await of _send_appointment_notification, or to its end
PollBegin(p) ==
    /\ polls[p].pc = "idle"
    /\ LET at == ReminderScan(appointments, 1, 24)
       IN  /\ polls' = [polls EXCEPT ![p] = at]
           /\ outbox' = EmitReminder(outbox, at)
    /\ UNCHANGED <<context_manager, sessions, queueVars, appointments, now, ret>>

\* the flag an invocation sets when its send returns
FlagSent(appts, at) ==
    IF at.pc = "send_24h"
    THEN [appts EXCEPT ![at.i].reminder_sent_24h = TRUE]
    ELSE [appts EXCEPT ![at.i].reminder_sent_1h = TRUE]

\* a suspended invocation resumes: it sets the flag of the reminder it sent and
\* runs on to its next await, or to its end
PollResume(p) ==
    /\ polls[p].pc # "idle"
    /\ LET flagged == FlagSent(appointments, polls[p])
           at == IF polls[p].pc = "send_24h"
                 THEN ReminderScan(flagged, polls[p].i, 1)
                 ELSE ReminderScan(flagged, polls[p].i + 1, 24)
       IN  /\ appointments' = flagged
           /\ polls' = [polls EXCEPT ![p] = at]
           /\ outbox' = EmitReminder(outbox, at)
    /\ UNCHANGED <<context_manager, sessions, queueVars, now, ret>>

\* datetime.utcnow() moves on to a later sample instant
Tick(t) ==
    /\ t > now
    /\ now' = t
    /\ UNCHANGED <<context_manager, sessions, queueVars, apptVars, ret>>

\* Appointment booking and the reminder poll
NextAppointments ==
    \/ \E start \in StartTimes, duration \in Durations :
          /\ \/ Len(appointments) < MaxAppointments
             \/ ~IsTimeSlotAvailable(appointments, start, duration)
          /\ ScheduleAppointment(start, duration)
    \/ \E p \in 1..MaxPolls : PollBegin(p)
    \/ \E p \in 1..MaxPolls : PollResume(p)
    \/ \E t \in Instants : Tick(t)

SpecAppointments == Init /\ [][NextAppointments]_vars

----------------------------------------------------------------------------
(* Appointment booking and the slot listing *)

\* inputs of schedule_appointment in the booking specification: start times on
\* day 1 (07:45, 09:00, 09:30, 19:30, 20:00) and durations in minutes (0 is
\* refused by the field constraint of Appointment.duration_minutes)
BookingStartTimes == {Day1 + 7 * 60 + 45, Day1 + 9 * 60, Day1 + 9 * 60 + 30,
                      Day1 + 19 * 60 + 30, Day1 + 20 * 60}
BookingDurations == {0, 30, 60}

\* date argument of get_available_slots: day 1, at 13:00
Dates == {Day1 + 13 * 60}

\* date.replace(hour=h, minute=0, second=0, microsecond=0)
ReplaceHour(date, h) == date - (date % (24 * 60)) + h * 60

\* the loop of get_available_slots from current_time on: candidates a quarter of
\* an hour apart while current_time + duration_minutes <= end_time, each kept
\* when _is_time_slot_available accepts it
RECURSIVE SlotScan(_, _, _, _)
SlotScan(appts, current_time, end_time, duration_minutes) ==
    IF current_time + duration_minutes <= end_time
    THEN (IF IsTimeSlotAvailable(appts, current_time, duration_minutes)
          THEN <<current_time>> ELSE <<>>)
         \o SlotScan(appts, current_time + 15, end_time, duration_minutes)
    ELSE <<>>

\* VirtualQueueService.get_available_slots(date, appointment_type, duration_minutes)
GetAvailableSlotsResult(appts, date, duration_minutes) ==
    SlotScan(appts, ReplaceHour(date, 8), ReplaceHour(date, 20), duration_minutes)

GetAvailableSlots(date, duration_minutes) ==
    /\ Return("get_available_slots",
              Some(GetAvailableSlotsResult(appointments, date, duration_minutes)))
    /\ UNCHANGED <<context_manager, sessions, queueVars, apptVars, now>>

\* the holder of an appointment sets its status to cancelled
CancelAppointment(k) ==
    /\ appointments[k].status = "confirmed"
    /\ appointments' = [appointments EXCEPT ![k].status = "cancelled"]
    /\ ret' = [op |-> "cancel_appointment", err |-> "", val |-> None]
    /\ UNCHANGED <<context_manager, sessions, queueVars, now, polls, outbox>>

\* Booking: schedule_appointment, cancelled bookings, get_available_slots
NextBooking ==
    \/ \E start \in BookingStartTimes, duration \in BookingDurations :
          /\ \/ Len(appointments) < MaxAppointments
             \/ ~IsTimeSlotAvailable(appointments, start, duration)
          /\ ScheduleAppointment(start, duration)
    \/ \E k \in 1..Len(appointments) : CancelAppointment(k)
    \/ \E date \in Dates, duration \in BookingDurations :
          GetAvailableSlots(date, duration)

SpecBooking == Init /\ [][NextBooking]_vars

----------------------------------------------------------------------------
(* The events of the service and their notifications *)

\* inputs of schedule_appointment here: day 1 09:00 and 09:30, for 60 minutes
NotifyStartTimes == {Day1 + 9 * 60, Day1 + 9 * 60 + 30}
NotifyDurations == {60}

\* The service's interface: joins, calls, completion, cancellation, status and
\* booking
NextNotify ==
    \/ \E qt \in JoinTypes : next_id < MaxEntries /\ JoinQueue(qt)
    \/ \E qt \in JoinTypes : CanNotifyFront(qt) /\ ServiceCallNextCustomer(qt)
    \/ \E id \in IssuedIds : ServiceCompleteService(id)
    \/ \E id \in IssuedIds : CancelQueueEntry(id)
    \/ \E id \in IssuedIds : QueryQueueStatus(id)
    \/ \E start \in NotifyStartTimes, duration \in NotifyDurations :
          /\ \/ Len(appointments) < MaxAppointments
             \/ ~IsTimeSlotAvailable(appointments, start, duration)
          /\ ScheduleAppointment(start, duration)

SpecNotify == Init /\ [][NextNotify]_vars

\* the instants the clock is sampled at between the calls: 5 and 10 minutes
\* after the start
ProgressInstants == {InitNow + 5, InitNow + 10}

\* Entries added to one queue, called and cancelled, the progress update and the
\* clock
NextProgress ==
    \/ \E qt \in LookupJoinTypes : next_id <= MaxEntries /\ AddToQueue(qt, 0)
    \/ \E qt \in LookupJoinTypes : CallNextCustomer(qt)
    \/ \E id \in KnownIds : CancelQueueEntry(id)
    \/ CanNotifyAll /\ UpdateQueueProgress
    \/ \E t \in ProgressInstants : Tick(t)

SpecProgress == Init /\ [][NextProgress]_vars

----------------------------------------------------------------------------
(* ContextManager *)

\* `len(...) > 20` and `[-20:]` in update_conversation_history
HistoryLimit == 20

\* a field of a context dict holds either the very object default_context holds
\* (None here) or an object of its own (Some(value))
DefaultObject == None

\* dict[k] = v
DictSet(d, k, v) == [x \in (DOMAIN d) \cup {k} |-> IF x = k THEN v ELSE d[x]]

\* dict.update(other)
DictUpdate(d, other) ==
    [k \in (DOMAIN d) \cup (DOMAIN other) |-> IF k \in DOMAIN other THEN other[k] ELSE d[k]]

\* list[-n:]
LastN(list, n) ==
    IF Len(list) <= n THEN list ELSE SubSeq(list, Len(list) - n + 1, Len(list))

RECURSIVE SumPrices(_)
\* sum(item.get("price", 0.0) for item in items), prices in whole units
SumPrices(items) ==
    IF items = <<>> THEN 0 ELSE Head(items).price + SumPrices(Tail(items))

\* self.default_context.copy(): a new dict whose list and dicts are those of
\* default_context
ShallowCopy ==
    [ conversation_history |-> DefaultObject,
      current_order        |-> DefaultObject,
      customer_preferences |-> DefaultObject ]

\* what a field of a context holds now
FieldValue(cm, context, field) ==
    IF context[field] = DefaultObject THEN cm.default_context[field] ELSE context[field][1]

\* json.dumps(context): the values the context holds at this moment
Dumped(cm, context) ==
    [ conversation_history |-> FieldValue(cm, context, "conversation_history"),
      current_order        |-> FieldValue(cm, context, "current_order"),
      customer_preferences |-> FieldValue(cm, context, "customer_preferences") ]

\* json.loads(context_data): a dict whose list and dicts are its own
Loaded(value) ==
    [ conversation_history |-> Some(value.conversation_history),
      current_order        |-> Some(value.current_order),
      customer_preferences |-> Some(value.customer_preferences) ]

\* a field of a context is changed in place: the object changes, whoever holds it
MutateField(cm, context, field, value) ==
    IF context[field] = DefaultObject
    THEN [ cm |-> [cm EXCEPT !.default_context[field] = value], context |-> context ]
    ELSE [ cm |-> cm, context |-> [context EXCEPT ![field] = Some(value)] ]

\* _get_redis_client: with no client yet a connection is tried; when the ping
\* fails the in-memory store is set to a new empty dict.  memory_store is None
\* while the manager has no _memory_store attribute.
GetRedisClient(cm, up) ==
    IF cm.redis_client THEN cm
    ELSE IF up THEN [cm EXCEPT !.redis_client = TRUE]
    ELSE [cm EXCEPT !.memory_store = Some(<<>>)]

\* _save_context: the JSON text under the session's key in Redis, or the dict
\* itself in the in-memory store
SaveContext(cm, session_id, context, up) ==
    LET c == GetRedisClient(cm, up)
    IN  IF c.redis_client
        THEN [c EXCEPT !.redis = DictSet(@, session_id, Dumped(c, context))]
        ELSE [c EXCEPT !.memory_store =
                 Some(DictSet(IF @ = None THEN <<>> ELSE @[1], session_id, context))]

\* initialize_session: the manager afterwards and the context returned
InitializeSessionResult(cm, session_id, up) ==
    [ cm |-> SaveContext(cm, session_id, ShallowCopy, up), context |-> ShallowCopy ]

\* get_session_context: the context found in Redis (loaded and saved again) or in
\* the in-memory store, a newly initialized one when there is none
GetSessionContextResult(cm, session_id, up) ==
    LET c == GetRedisClient(cm, up)
    IN  IF c.redis_client
        THEN IF session_id \in DOMAIN c.redis
             THEN LET context == Loaded(c.redis[session_id])
                  IN  [ cm |-> SaveContext(c, session_id, context, up), context |-> context ]
             ELSE InitializeSessionResult(c, session_id, up)
        ELSE IF c.memory_store # None /\ session_id \in DOMAIN c.memory_store[1]
             THEN [ cm |-> c, context |-> c.memory_store[1][session_id] ]
             ELSE InitializeSessionResult(c, session_id, up)

\* update_conversation_history: the message is appended to the list the context
\* holds; a list longer than the limit is replaced, in the context, by a new
\* list of its last messages; the context is saved
UpdateConversationHistoryResult(cm, session_id, new_message, up) ==
    LET g == GetSessionContextResult(cm, session_id, up)
        a == MutateField(g.cm, g.context, "conversation_history",
                 Append(FieldValue(g.cm, g.context, "conversation_history"), new_message))
        history == FieldValue(a.cm, a.context, "conversation_history")
        context == IF Len(history) > HistoryLimit
                   THEN [a.context EXCEPT
                           !.conversation_history = Some(LastN(history, HistoryLimit))]
                   ELSE a.context
    IN  SaveContext(a.cm, session_id, context, up)

\* add_order_item: the item is appended to the items of the order the context
\* holds and the total of that order is set
AddOrderItemResult(cm, session_id, item, up) ==
    LET g == GetSessionContextResult(cm, session_id, up)
        items == Append(FieldValue(g.cm, g.context, "current_order").items, item)
        a == MutateField(g.cm, g.context, "current_order",
                         [items |-> items, total |-> SumPrices(items)])
    IN  SaveContext(a.cm, session_id, a.context, up)

\* remove_order_item: the order the context holds gets the list of its items
\* without those of this id, and its total is set
RemoveOrderItemResult(cm, session_id, item_id, up) ==
    LET g == GetSessionContextResult(cm, session_id, up)
        items == SelectSeq(FieldValue(g.cm, g.context, "current_order").items,
                           LAMBDA item : item.id # item_id)
        a == MutateField(g.cm, g.context, "current_order",
                         [items |-> items, total |-> SumPrices(items)])
    IN  SaveContext(a.cm, session_id, a.context, up)

\* update_customer_preferences: the preferences dict the context holds is updated
UpdateCustomerPreferencesResult(cm, session_id, preferences, up) ==
    LET g == GetSessionContextResult(cm, session_id, up)
        a == MutateField(g.cm, g.context, "customer_preferences",
                 DictUpdate(FieldValue(g.cm, g.context, "customer_preferences"),
                            preferences))
    IN  SaveContext(a.cm, session_id, a.context, up)

\* the frame of the ContextManager operations
otherVars == <<queueVars, appointments, polls, outbox, now>>

\* ContextManager.initialize_session(session_id); up: the Redis server answers
\* the ping of a connection tried during the call
InitializeSession(session_id, up) ==
    /\ LET r == InitializeSessionResult(context_manager, session_id, up)
       IN  /\ context_manager' = r.cm
           /\ Return("initialize_session", Some(Dumped(r.cm, r.context)))
    /\ sessions' = [sessions EXCEPT ![session_id].initialized = TRUE]
    /\ UNCHANGED otherVars

\* ContextManager.get_session_context(session_id)
GetSessionContext(session_id, up) ==
    /\ LET r == GetSessionContextResult(context_manager, session_id, up)
       IN  /\ context_manager' = r.cm
           /\ Return("get_session_context", Some(Dumped(r.cm, r.context)))
    /\ UNCHANGED <<sessions, otherVars>>

\* ContextManager.update_conversation_history(session_id, role, message): the
\* message is the next one of this session, numbered
UpdateConversationHistory(session_id, up) ==
    /\ LET new_message == [ role    |-> "user",
                            content |-> <<session_id, sessions[session_id].messages + 1>> ]
       IN  context_manager' = UpdateConversationHistoryResult(context_manager, session_id,
                                                              new_message, up)
    /\ sessions' = [sessions EXCEPT ![session_id].messages = @ + 1]
    /\ Return("update_conversation_history", None)
    /\ UNCHANGED otherVars

\* ContextManager.add_order_item(session_id, item): the item gets a fresh id
AddOrderItem(session_id, price, up) ==
    /\ context_manager' = AddOrderItemResult(context_manager, session_id,
                                             [id |-> next_id, price |-> price], up)
    /\ next_id' = next_id + 1
    /\ Return("add_order_item", None)
    /\ UNCHANGED <<sessions, current_queues, available_tables, occupied_tables, calls,
                   appointments, polls, outbox, now>>

\* ContextManager.remove_order_item(session_id, item_id)
RemoveOrderItem(session_id, item_id, up) ==
    /\ context_manager' = RemoveOrderItemResult(context_manager, session_id, item_id, up)
    /\ Return("remove_order_item", None)
    /\ UNCHANGED <<sessions, otherVars>>

\* ContextManager.update_customer_preferences(session_id, preferences)
UpdateCustomerPreferences(session_id, preferences, up) ==
    /\ context_manager' = UpdateCustomerPreferencesResult(context_manager, session_id,
                                                          preferences, up)
    /\ Return("update_customer_preferences", None)
    /\ UNCHANGED <<sessions, otherVars>>

\* inputs: the price of an item, the preferences passed in one call
Prices == {3}
PreferenceInputs == {"milk" :> "oat", "size" :> "large"}

\* the sessions whose history, order and preferences are changed; the other
\* sessions are initialized and read
ChangedSessions == {"A"}

\* the Redis server is reachable for a whole run or for none of it: it answers
\* once a connection stands, and does not once an attempt has failed
ServerAnswers ==
    { up \in BOOLEAN : /\ context_manager.redis_client => up
                       /\ context_manager.memory_store # None => ~up }

\* Sessions initialized, read and changed, with Redis reachable or not
NextSessions ==
    \/ \E s \in SessionIds, up \in ServerAnswers : InitializeSession(s, up)
    \/ \E s \in SessionIds, up \in ServerAnswers : GetSessionContext(s, up)
    \/ \E s \in ChangedSessions, up \in ServerAnswers :
          sessions[s].messages < MaxSessionMessages /\ UpdateConversationHistory(s, up)
    \/ \E s \in ChangedSessions, price \in Prices, up \in ServerAnswers :
          next_id <= MaxItems /\ AddOrderItem(s, price, up)
    \/ \E s \in ChangedSessions, item_id \in IssuedIds, up \in ServerAnswers :
          RemoveOrderItem(s, item_id, up)
    \/ \E s \in ChangedSessions, preferences \in PreferenceInputs, up \in ServerAnswers :
          UpdateCustomerPreferences(s, preferences, up)

SpecSessions == Init /\ [][NextSessions]_vars

\* the sessions whose histories are written: one followed past the limit,
\* another that adds a message meanwhile
HistorySessions == {"A", "B"}

MessagesAllowed(s) == IF s = "A" THEN MaxMessages ELSE MaxForeignMessages

\* Messages added to a session and its context read back
NextHistory ==
    \/ \E s \in HistorySessions, up \in ServerAnswers :
          sessions[s].messages < MessagesAllowed(s) /\ UpdateConversationHistory(s, up)
    \/ \E s \in HistorySessions, up \in ServerAnswers : GetSessionContext(s, up)

SpecHistory == Init /\ [][NextHistory]_vars

----------------------------------------------------------------------------
(* Properties *)

Range(f) == {f[x] : x \in DOMAIN f}
Ids(queue) == [k \in 1..Len(queue) |-> queue[k].queue_id]

\* C1: every queue is ordered by non-increasing priority, and among entries of
\* equal priority the one added earlier (the smaller queue_id) is ahead
C1_PriorityThenArrivalOrder ==
    \A qt \in QueueType : \A i, j \in 1..Len(current_queues[qt]) :
        i < j =>
            /\ current_queues[qt][i].priority >= current_queues[qt][j].priority
            /\ current_queues[qt][i].priority = current_queues[qt][j].priority
                  => current_queues[qt][i].queue_id < current_queues[qt][j].queue_id

\* three joins to one queue, the last of a higher priority than the first two
C1_Witness ==
    \E qt \in QueueType :
        /\ Len(current_queues[qt]) = 3
        /\ Ids(current_queues[qt]) = <<3, 1, 2>>
        /\ current_queues[qt][2].priority = current_queues[qt][3].priority

\* C2: the current_position of every entry in a queue is its 1-based index
C2_PositionIsIndex ==
    \A qt \in QueueType : \A i \in 1..Len(current_queues[qt]) :
        current_queues[qt][i].current_position = i

\* an entry was removed from the front and the one behind it moved up
C2_Witness ==
    /\ ret.op \in {"remove_from_queue", "complete_service", "cancel_queue_entry"}
    /\ \E qt \in QueueType :
          /\ current_queues[qt] # <<>>
          /\ current_queues[qt][1].original_position = 2
          /\ current_queues[qt][1].status = WAITING

\* C3: each table 1..N is in exactly one of available_tables and the keys of
\* occupied_tables, and available_tables holds no table twice
C3_TableInExactlyOnePlace ==
    /\ \A t \in Tables : (t \in Range(available_tables)) # (t \in DOMAIN occupied_tables)
    /\ Cardinality(Range(available_tables)) = Len(available_tables)

\* a table was assigned and released again: it is back at the end of the pool
C3_Witness ==
    /\ ret.op = "complete_service"
    /\ Len(available_tables) >= 2
    /\ available_tables[Len(available_tables)] = 1
    /\ occupied_tables = <<>>

\* C4: no two non-cancelled appointments have overlapping half-open intervals
\* [scheduled_time, scheduled_time + duration)
C4_NoOverlappingAppointments ==
    \A i, j \in 1..Len(appointments) :
        (i < j /\ appointments[i].status # "cancelled"
               /\ appointments[j].status # "cancelled") =>
            \/ appointments[i].scheduled_time + appointments[i].duration_minutes
                  <= appointments[j].scheduled_time
            \/ appointments[j].scheduled_time + appointments[j].duration_minutes
                  <= appointments[i].scheduled_time

\* two back-to-back bookings are held and a further call has just been refused
C4_Witness ==
    /\ Len(appointments) = 2
    /\ appointments[2].scheduled_time + appointments[2].duration_minutes
          = appointments[1].scheduled_time
    /\ ret.op = "schedule_appointment"
    /\ ret.err = "ValueError"

C6_CalledEntryReturnedAgain ==
    [][ret'.op = "call_next_customer" =>
          \A qt \in QueueType : \A i \in 1..Len(current_queues[qt]) :
             (current_queues[qt][i].status = CALLED /\ CallNextCustomer(qt)) =>
                 /\ ret'.val # None
                 /\ ret'.val[1].queue_id = current_queues[qt][i].queue_id
      ]_vars

\* C6, amended: the called entry is returned again as long as it is still in the
\* queue and the queue holds no entry of strictly higher priority
C6_CalledEntryReturnedAgainUnlessOutranked ==
    [][ret'.op = "call_next_customer" =>
          \A qt \in QueueType : \A i \in 1..Len(current_queues[qt]) :
             ( /\ current_queues[qt][i].status = CALLED
               /\ \A j \in 1..Len(current_queues[qt]) :
                     current_queues[qt][j].priority <= current_queues[qt][i].priority
               /\ CallNextCustomer(qt) ) =>
                 /\ ret'.val # None
                 /\ ret'.val[1].queue_id = current_queues[qt][i].queue_id
      ]_vars

\* the front entry has been called and returned, with an entry that joined after
\* it, of the same priority, waiting behind it
C6_Witness ==
    /\ ret.op = "call_next_customer"
    /\ ret.val # None
    /\ \E qt \in QueueType :
          /\ Len(current_queues[qt]) >= 2
          /\ current_queues[qt][1] = ret.val[1]
          /\ current_queues[qt][1].status = CALLED
          /\ current_queues[qt][2].queue_id > current_queues[qt][1].queue_id
          /\ current_queues[qt][2].priority = current_queues[qt][1].priority

\* C7: call_next_customer on a non-empty queue changes the front entry's status
\* and called_at and nothing else (no queue's membership or order, no position,
\* not the table pool) and returns the front entry; on an empty queue it
\* returns none and changes nothing
C7_CallNextChangesFrontOnly ==
    [][ret'.op = "call_next_customer" => \A qt \in QueueType : CallNextCustomer(qt) =>
          /\ available_tables' = available_tables
          /\ occupied_tables' = occupied_tables
          /\ IF current_queues[qt] = <<>>
             THEN /\ ret'.val = None
                  /\ current_queues' = current_queues
             ELSE /\ ret'.val = Some(current_queues'[qt][1])
                  /\ \A q2 \in QueueType :
                        /\ Len(current_queues'[q2]) = Len(current_queues[q2])
                        /\ \A k \in 1..Len(current_queues[q2]) :
                              current_queues'[q2][k] =
                                 IF q2 = qt /\ k = 1
                                 THEN [current_queues[qt][1] EXCEPT
                                          !.status = CALLED, !.called_at = Some(now)]
                                 ELSE current_queues[q2][k]
      ]_vars

\* the front of a queue of two was called while the other queue held an entry
C7_Witness ==
    /\ ret.op = "call_next_customer"
    /\ ret.val # None
    /\ \E qt \in QueueType :
          /\ Len(current_queues[qt]) = 2
          /\ current_queues[qt][1] = ret.val[1]
          /\ current_queues[qt][1].status = CALLED
          /\ current_queues[qt][1].called_at = Some(now)
          /\ current_queues[qt][2].status = WAITING
          /\ \E q2 \in QueueType \ {qt} : current_queues[q2] # <<>>

\* C8: after the service's complete_service returned an entry that the
\* service's call_next_customer had given a table, that table is no key of
\* occupied_tables and is in available_tables
C8_TableReleasedOnCompletion ==
    (ret.op = "service.complete_service" /\ ret.val # None
        /\ ret.val[1].table_number # None) =>
        /\ ret.val[1].table_number[1] \notin DOMAIN occupied_tables
        /\ ret.val[1].table_number[1] \in Range(available_tables)

\* C9: complete_service(queue_id, table_number) for an id in a queue removes that
\* entry and keeps the others in order, returns it marked completed, and moves
\* table_number from occupied to available exactly when it is supplied and
\* occupied; otherwise the table pool is unchanged
C9_CompleteServiceEffect ==
    [][ret'.op = "complete_service" =>
        \A id \in LiveIds, t \in TableArgs : CompleteService(id, t) =>
          LET qt == FindQueue(current_queues, id)[1]
              i  == IndexOf(current_queues[qt], id)
          IN  /\ ~InSomeQueue(current_queues', id)
              /\ Ids(current_queues'[qt]) = Ids(ListRemove(current_queues[qt], i))
              /\ \A q2 \in QueueType \ {qt} : current_queues'[q2] = current_queues[q2]
              /\ ret'.val = Some([current_queues[qt][i] EXCEPT
                                     !.status = COMPLETED, !.completed_at = Some(now)])
              /\ IF t # None /\ t[1] \in DOMAIN occupied_tables
                 THEN /\ available_tables' = Append(available_tables, t[1])
                      /\ DOMAIN occupied_tables' = DOMAIN occupied_tables \ {t[1]}
                      /\ \A k \in DOMAIN occupied_tables' :
                            occupied_tables'[k] = occupied_tables[k]
                 ELSE /\ available_tables' = available_tables
                      /\ occupied_tables' = occupied_tables
      ]_vars

\* an entry was completed with the number of an occupied table while another
\* table stayed occupied
C9_Witness ==
    /\ ret.op = "complete_service"
    /\ ret.val # None
    /\ ret.val[1].status = COMPLETED
    /\ Len(available_tables) = 1
    /\ Cardinality(DOMAIN occupied_tables) = NumTables - 1
    /\ ret.val[1].table_number = Some(available_tables[1])

\* C10: with every table assigned (the pool empty), assign_table returns none and
\* leaves available_tables, occupied_tables and every entry unchanged
C10_AssignTableWhenExhausted ==
    [][ret'.op = "assign_table" =>
        \A id \in KnownIds, pref \in Preferences :
          (available_tables = <<>> /\ AssignTable(id, pref)) =>
          /\ ret'.val = None
          /\ available_tables' = available_tables
          /\ occupied_tables' = occupied_tables
          /\ current_queues' = current_queues
      ]_vars

\* all N tables are occupied and a further assign_table has returned none
C10_Witness ==
    /\ ret.op = "assign_table"
    /\ ret.val = None
    /\ available_tables = <<>>
    /\ DOMAIN occupied_tables = Tables
    /\ \E qt \in QueueType : current_queues[qt] # <<>>

\* the half-open intervals [start, start + duration) and that of appointment a
\* have no instant in common under the test of the booking rule
ClearOf(start, duration, a) ==
    ~(start < a.scheduled_time + a.duration_minutes /\ start + duration > a.scheduled_time)

\* (a) no overlap with a non-cancelled appointment, (b) start hour in [8, 20)
SlotFree(appts, start, duration) ==
    /\ \A k \in 1..Len(appts) :
          appts[k].status # "cancelled" => ClearOf(start, duration, appts[k])
    /\ start % (24 * 60) >= 8 * 60
    /\ start % (24 * 60) < 20 * 60

C12_ScheduleFailsCleanOrAppendsOne ==
    [][ret'.op = "schedule_appointment" =>
        \A start \in BookingStartTimes, duration \in BookingDurations :
            ScheduleAppointment(start, duration) =>
                /\ ~SlotFree(appointments, start, duration) =>
                      /\ ret'.err # ""
                      /\ ret'.val = None
                /\ ret'.err # "" =>
                      /\ appointments' = appointments
                      /\ outbox' = outbox
                /\ ret'.err = "" =>
                      LET n == Len(appointments) + 1
                      IN  /\ Len(appointments') = n
                          /\ SubSeq(appointments', 1, n - 1) = appointments
                          /\ appointments'[n].status = "confirmed"
                          /\ appointments'[n].scheduled_time = start
                          /\ appointments'[n].duration_minutes = duration
                          /\ ret'.val = Some(appointments'[n])
                          /\ DOMAIN outbox' = DOMAIN outbox \cup {<<"appointment_confirmed", n>>}
                          /\ <<"appointment_confirmed", n>> \notin DOMAIN outbox
                          /\ outbox'[<<"appointment_confirmed", n>>] = 1
                          /\ \A key \in DOMAIN outbox : outbox'[key] = outbox[key]
      ]_vars

\* one booking is held, confirmed once, and a further call has just been refused
C12_Witness ==
    /\ ret.op = "schedule_appointment"
    /\ ret.err = "ValueError"
    /\ Len(appointments) = 1
    /\ appointments[1].status = "confirmed"
    /\ DOMAIN outbox = {<<"appointment_confirmed", 1>>}
    /\ outbox[<<"appointment_confirmed", 1>>] = 1

\* C13: get_available_slots(date, duration) returns, in increasing order, exactly
\* the start times on the quarter-hour grid in [08:00, 20:00) of that date that
\* _is_time_slot_available accepts for that duration
C13_SlotsAreTheAvailableGridTimes ==
    [][ret'.op = "get_available_slots" =>
        \A date \in Dates, duration \in BookingDurations :
            GetAvailableSlots(date, duration) =>
                LET slots == ret'.val[1]
                    grid  == {ReplaceHour(date, 8) + 15 * k : k \in 0..((20 - 8) * 4 - 1)}
                IN  /\ Range(slots) = {t \in grid : SlotFree(appointments, t, duration)}
                    /\ \A i, j \in 1..Len(slots) : i < j => slots[i] < slots[j]
      ]_vars

\* C14: add_to_queue(entry) returns p = 1 + the number of entries of the target
\* queue of priority greater than or equal to the entry's; afterwards the entry
\* is at index p with original_position = current_position = p, the entries
\* that were there keep their order, and the other queues are unchanged
C14_AddToQueuePosition ==
    [][ret'.op = "add_to_queue" =>
        \A qt \in QueueType, prio \in Priorities : AddToQueue(qt, prio) =>
            LET queue == current_queues[qt]
                p == 1 + Cardinality({i \in 1..Len(queue) : queue[i].priority >= prio})
            IN  /\ ret'.val = Some(p)
                /\ Len(current_queues'[qt]) = Len(queue) + 1
                /\ current_queues'[qt][p].queue_id = next_id
                /\ current_queues'[qt][p].priority = prio
                /\ current_queues'[qt][p].original_position = p
                /\ current_queues'[qt][p].current_position = p
                /\ Ids(ListRemove(current_queues'[qt], p)) = Ids(queue)
                /\ \A q2 \in QueueType \ {qt} : current_queues'[q2] = current_queues[q2]
      ]_vars

\* the third entry has joined with the priority of the first, above that of the
\* second, and was placed between them
C14_Witness ==
    /\ ret.op = "add_to_queue"
    /\ ret.val = Some(2)
    /\ \E qt \in QueueType :
          /\ Ids(current_queues[qt]) = <<1, 3, 2>>
          /\ current_queues[qt][1].priority = current_queues[qt][2].priority
          /\ current_queues[qt][2].priority > current_queues[qt][3].priority
          /\ current_queues[qt][2].original_position = 2

\* C15: for an entry at index i of its queue, get_estimated_wait_time(queue_id)
\* and the estimated_wait_time of get_queue_status are
\* (i - 1) * average_service_time + the entry's estimated_prep_time, and the
\* position reported is i, in the state the call is made in
C15_WaitTimeFromCurrentPosition ==
    [][ret'.op \in {"get_estimated_wait_time", "get_queue_status"} =>
        \A qt \in QueueType : \A i \in 1..Len(current_queues[qt]) :
            LET entry == current_queues[qt][i]
                minutes == (i - 1) * average_service_time + entry.estimated_prep_time
            IN  /\ QueryEstimatedWaitTime(entry.queue_id) => ret'.val = Some(minutes)
                /\ QueryQueueStatus(entry.queue_id) =>
                      /\ ret'.val # None
                      /\ ret'.val[1].queue_id = entry.queue_id
                      /\ ret'.val[1].estimated_wait_time = Some(minutes)
                      /\ ret'.val[1].position = Some(i)
                      /\ ret'.val[1].status = entry.status
      ]_vars

\* get_queue_status has answered for an entry that joined second, stands first
\* since the one ahead of it left, and has a prep time of 15 minutes
C15_Witness ==
    /\ ret.op = "get_queue_status"
    /\ ret.val # None
    /\ ret.val[1].position = Some(1)
    /\ ret.val[1].estimated_wait_time = Some(15)
    /\ \E qt \in QueueType :
          /\ Len(current_queues[qt]) = 2
          /\ current_queues[qt][1].queue_id = ret.val[1].queue_id
          /\ current_queues[qt][1].original_position = 2

\* C16: within one queue, of two entries with equal estimated_prep_time the one
\* at the larger position never has the smaller get_estimated_wait_time
C16_WaitTimeMonotoneInPosition ==
    \A qt \in QueueType : \A i, j \in 1..Len(current_queues[qt]) :
        ( /\ i < j
          /\ current_queues[qt][i].estimated_prep_time
                = current_queues[qt][j].estimated_prep_time ) =>
            GetEstimatedWaitTime(current_queues, current_queues[qt][j].queue_id)[1]
               >= GetEstimatedWaitTime(current_queues, current_queues[qt][i].queue_id)[1]

\* a queue of three: the last two have equal prep times and the one behind waits
\* longer; the first has a longer prep time and waits longer than the second
C16_Witness ==
    \E qt \in QueueType :
        /\ Len(current_queues[qt]) = 3
        /\ current_queues[qt][2].estimated_prep_time = current_queues[qt][3].estimated_prep_time
        /\ GetEstimatedWaitTime(current_queues, current_queues[qt][3].queue_id)[1]
              > GetEstimatedWaitTime(current_queues, current_queues[qt][2].queue_id)[1]
        /\ GetEstimatedWaitTime(current_queues, current_queues[qt][1].queue_id)[1]
              > GetEstimatedWaitTime(current_queues, current_queues[qt][2].queue_id)[1]

\* C17: cancel_queue_entry(queue_id) returns true exactly when a queue holds the
\* id; it then removes that entry, marks it cancelled and leaves the others in
\* order with their positions recomputed; afterwards get_queue_status,
\* get_queue_position and get_estimated_wait_time find nothing for the id and a
\* second cancel returns false and changes nothing; an id that has left the
\* queues never comes back
C17_CancelRemovesForGood ==
    [][ /\ ret'.op = "cancel_queue_entry" =>
            \A id \in IssuedIds : CancelQueueEntry(id) =>
               LET held == {qt \in QueueType :
                               \E i \in 1..Len(current_queues[qt]) :
                                  current_queues[qt][i].queue_id = id}
               IN  /\ ret'.val = Some(held # {})
                   /\ available_tables' = available_tables
                   /\ occupied_tables' = occupied_tables
                   /\ \A qt \in QueueType \ held : current_queues'[qt] = current_queues[qt]
                   /\ \A qt \in held :
                         LET i == CHOOSE i \in 1..Len(current_queues[qt]) :
                                     current_queues[qt][i].queue_id = id
                             rest == ListRemove(current_queues[qt], i)
                         IN  /\ Len(current_queues'[qt]) = Len(rest)
                             /\ \A k \in 1..Len(rest) :
                                   current_queues'[qt][k] =
                                      [rest[k] EXCEPT !.current_position = k]
                   /\ held # {} =>
                         /\ CancelResult(current_queues, id).entry # None
                         /\ CancelResult(current_queues, id).entry[1].queue_id = id
                         /\ CancelResult(current_queues, id).entry[1].status = CANCELLED
                   /\ GetQueueStatus(current_queues', id) = None
                   /\ GetQueuePosition(current_queues', id) = None
                   /\ GetEstimatedWaitTime(current_queues', id) = None
                   /\ CancelResult(current_queues', id).ok = FALSE
                   /\ CancelResult(current_queues', id).queues = current_queues'
        /\ \A id \in IssuedIds :
              ~InSomeQueue(current_queues, id) => ~InSomeQueue(current_queues', id)
        /\ \A id \in IssuedIds :
              (ret'.op = "cancel_queue_entry" /\ ~InSomeQueue(current_queues, id)
                  /\ CancelQueueEntry(id)) =>
                  /\ ret'.val = Some(FALSE)
                  /\ current_queues' = current_queues
        /\ \A id \in IssuedIds :
              ~InSomeQueue(current_queues, id) =>
                  /\ QueryQueueStatus(id) => ret'.val = None
                  /\ QueryQueuePosition(id) => ret'.val = None
                  /\ QueryEstimatedWaitTime(id) => ret'.val = None
      ]_vars

\* the front entry of a queue of two was cancelled and the one behind it moved up
C17_Witness ==
    /\ ret.op = "cancel_queue_entry"
    /\ ret.val = Some(TRUE)
    /\ \E qt \in QueueType :
          /\ Len(current_queues[qt]) = 1
          /\ current_queues[qt][1].original_position = 2
          /\ current_queues[qt][1].current_position = 1
          /\ ~InSomeQueue(current_queues, 1)

\* C18: remove_from_queue, complete_service (with any table_number or none),
\* cancel_queue_entry, get_queue_status and get_estimated_wait_time, given a
\* queue_id that no queue holds, return their not-found result without raising
\* and leave every queue, every position and the table pool as they were; an
\* occupied table passed to complete_service stays occupied
C18_UnknownIdChangesNothing ==
    [][ret'.op \in {"remove_from_queue", "complete_service", "cancel_queue_entry",
                    "get_queue_status", "get_estimated_wait_time"} =>
        \A id \in IssuedIds :
            (\A qt \in QueueType : \A i \in 1..Len(current_queues[qt]) :
                current_queues[qt][i].queue_id # id) =>
                /\ ( \/ RemoveFromQueue(id)
                     \/ \E t \in TableArgs : CompleteService(id, t)
                     \/ QueryQueueStatus(id)
                     \/ QueryEstimatedWaitTime(id) ) =>
                        /\ ret'.err = ""
                        /\ ret'.val = None
                        /\ current_queues' = current_queues
                        /\ available_tables' = available_tables
                        /\ occupied_tables' = occupied_tables
                /\ CancelQueueEntry(id) =>
                        /\ ret'.err = ""
                        /\ ret'.val = Some(FALSE)
                        /\ current_queues' = current_queues
                        /\ available_tables' = available_tables
                        /\ occupied_tables' = occupied_tables
      ]_vars

\* complete_service has returned not-found while a table is occupied by an entry
\* that is still in its queue
C18_Witness ==
    /\ ret.op = "complete_service"
    /\ ret.err = ""
    /\ ret.val = None
    /\ \E t \in DOMAIN occupied_tables : InSomeQueue(current_queues, occupied_tables[t])
    /\ Len(available_tables) < NumTables

\* box2 is box with one more notification, the one of this key, and no other
OneMore(box, box2, key) ==
    /\ DOMAIN box2 = DOMAIN box \cup {key}
    /\ box2[key] = (IF key \in DOMAIN box THEN box[key] ELSE 0) + 1
    /\ \A k \in DOMAIN box \ {key} : box2[k] = box[k]

\* the notifications recorded on the entries in the queues
Recorded(queues) ==
    [qt \in QueueType |-> [i \in 1..Len(queues[qt]) |-> queues[qt][i].notifications_sent]]

\* C19: join_queue hands the channel exactly one notification, queue_joined, with
\* the position returned by add_to_queue and the wait time computed from it;
\* call_next_customer on a non-empty queue exactly one, your_turn;
\* schedule_appointment that succeeds exactly one, appointment_confirmed; a call
\* on an empty queue, a booking that fails, complete_service, cancel and
\* get_queue_status, found or not, hand it none
C19_OneNotificationPerEvent ==
    [][ /\ ret'.op = "join_queue" => \A qt \in JoinTypes : JoinQueue(qt) =>
              LET p == AddToQueueResult(current_queues, QueueEntry(next_id, qt, 0)).position
                  w == (p - 1) * average_service_time + 5
              IN  /\ current_queues'[qt][p].queue_id = next_id
                  /\ OneMore(outbox, outbox', <<"queue_joined", <<next_id, p, w>>>>)
                  /\ Len(current_queues'[qt][p].notifications_sent) = 1
                  /\ current_queues'[qt][p].notifications_sent[1].type = "queue_joined"
        /\ ret'.op = "service.call_next_customer" =>
              \A qt \in JoinTypes : ServiceCallNextCustomer(qt) =>
                 IF current_queues[qt] = <<>>
                 THEN /\ ret'.val = None
                      /\ outbox' = outbox
                      /\ Recorded(current_queues') = Recorded(current_queues)
                 ELSE /\ \E t \in {None} \cup {Some(n) : n \in Tables} :
                            OneMore(outbox, outbox',
                                    <<"your_turn", <<current_queues[qt][1].queue_id, t>>>>)
                      /\ current_queues'[qt][1].notifications_sent =
                            Append(current_queues[qt][1].notifications_sent,
                                   [type |-> "your_turn", sent_at |-> now])
        /\ ret'.op = "schedule_appointment" =>
              IF ret'.err = ""
              THEN OneMore(outbox, outbox', <<"appointment_confirmed", Len(appointments')>>)
              ELSE outbox' = outbox
        /\ ret'.op \in {"service.complete_service", "cancel_queue_entry",
                        "get_queue_status"} =>
              /\ outbox' = outbox
              /\ \A qt \in QueueType : \A i \in 1..Len(current_queues'[qt]) :
                    \E j \in 1..Len(current_queues[qt]) :
                       /\ current_queues[qt][j].queue_id = current_queues'[qt][i].queue_id
                       /\ current_queues[qt][j].notifications_sent
                             = current_queues'[qt][i].notifications_sent
      ]_vars

\* the second customer has joined behind the first, who has been called once,
\* and a booking is confirmed: four events, four notifications
C19_Witness ==
    /\ ret.op = "join_queue"
    /\ ret.val # None
    /\ ret.val[1].current_position = 2
    /\ <<"queue_joined", <<ret.val[1].queue_id, 2, 10>>>> \in DOMAIN outbox
    /\ \E key \in DOMAIN outbox : key[1] = "your_turn"
    /\ <<"appointment_confirmed", 1>> \in DOMAIN outbox
    /\ Cardinality(DOMAIN outbox) = 4
    /\ \A key \in DOMAIN outbox : outbox[key] = 1

\* C20: with call_next_customer(DINE_IN) invocations interleaved at the send, no
\* table is handed to two invocations, a table handed out was not occupied, it
\* becomes the one new key of occupied_tables, and the pool never lists a table
\* twice or one that is occupied
C20_NoTableGivenTwice ==
    [][ /\ \A p, q \in 1..MaxCalls :
              (p # q /\ calls'[p].table # None /\ calls'[q].table # None) =>
                  calls'[p].table # calls'[q].table
        /\ \A p \in 1..MaxCalls :
              (calls[p].pc = "idle" /\ calls'[p].pc = "send" /\ calls'[p].table # None) =>
                  LET t == calls'[p].table[1]
                  IN  /\ t \in Tables
                      /\ t \notin DOMAIN occupied_tables
                      /\ DOMAIN occupied_tables' = DOMAIN occupied_tables \cup {t}
                      /\ occupied_tables'[t] = calls'[p].id
                      /\ \A k \in DOMAIN occupied_tables :
                            occupied_tables'[k] = occupied_tables[k]
                      /\ t \notin Range(available_tables')
        /\ DOMAIN occupied_tables \subseteq DOMAIN occupied_tables'
        /\ Cardinality(Range(available_tables')) = Len(available_tables')
        /\ Range(available_tables') \cap DOMAIN occupied_tables' = {}
      ]_vars

\* two invocations are suspended in their sends at once, for two different
\* entries, each with a table of its own
C20_Witness ==
    /\ calls[1].pc = "send"
    /\ calls[2].pc = "send"
    /\ calls[1].id # calls[2].id
    /\ calls[1].table # None
    /\ calls[2].table # None
    /\ occupied_tables[calls[1].table[1]] = calls[1].id
    /\ occupied_tables[calls[2].table[1]] = calls[2].id

\* C21: for each queue_id at most one key of occupied_tables maps to it
C21_OneTablePerEntry ==
    \A t1, t2 \in DOMAIN occupied_tables :
        occupied_tables[t1] = occupied_tables[t2] => t1 = t2

\* C22: each key t of occupied_tables maps to the queue_id of an entry that is in
\* a queue and whose table_number is t
C22_OccupiedTableHasLiveEntry ==
    \A t \in DOMAIN occupied_tables :
        \E qt \in QueueType : \E i \in 1..Len(current_queues[qt]) :
            /\ current_queues[qt][i].queue_id = occupied_tables[t]
            /\ current_queues[qt][i].table_number = Some(t)

\* C23: with the pool non-empty, assign_table(queue_id, preference) returns the head
\* of available_tables, removes exactly it from the pool, maps it to queue_id,
\* sets table_number on the entry with that id if it is in a queue and changes no
\* other entry, whatever the preference
C23_AssignTableTakesHead ==
    [][ret'.op = "assign_table" =>
        \A id \in KnownIds, pref \in Preferences :
          (available_tables # <<>> /\ AssignTable(id, pref)) =>
            LET t == Head(available_tables)
            IN  /\ ret'.val = Some(t)
                /\ available_tables' = Tail(available_tables)
                /\ DOMAIN occupied_tables' = (DOMAIN occupied_tables) \cup {t}
                /\ occupied_tables'[t] = id
                /\ \A k \in (DOMAIN occupied_tables) \ {t} :
                       occupied_tables'[k] = occupied_tables[k]
                /\ \A qt \in QueueType :
                       /\ Len(current_queues'[qt]) = Len(current_queues[qt])
                       /\ \A i \in 1..Len(current_queues[qt]) :
                             current_queues'[qt][i] =
                               IF current_queues[qt][i].queue_id = id
                               THEN [current_queues[qt][i] EXCEPT !.table_number = Some(t)]
                               ELSE current_queues[qt][i]
      ]_vars

\* assign_table has just handed a table to an entry in a queue and recorded it
\* on the entry, another table being left in the pool
C23_Witness ==
    /\ ret.op = "assign_table"
    /\ ret.val # None
    /\ \E qt \in QueueType : \E i \in 1..Len(current_queues[qt]) :
          /\ current_queues[qt][i].table_number = ret.val
          /\ occupied_tables[ret.val[1]] = current_queues[qt][i].queue_id
    /\ Len(available_tables) >= 1

\* C24: remove_from_queue(queue_id) with the id in a queue returns that entry,
\* deletes exactly it, keeps the other entries of its queue in their order (their
\* current_position renumbered), and leaves the other queues and the tables alone
C24_RemoveDeletesExactlyThatEntry ==
    [][ret'.op = "remove_from_queue" =>
        \A id \in LiveIds : RemoveFromQueue(id) =>
          \E qt \in QueueType : \E i \in 1..Len(current_queues[qt]) :
            /\ current_queues[qt][i].queue_id = id
            /\ ret'.val = Some(current_queues[qt][i])
            /\ Len(current_queues'[qt]) = Len(current_queues[qt]) - 1
            /\ \A j \in 1..Len(current_queues'[qt]) :
                  current_queues'[qt][j] =
                    [current_queues[qt][IF j < i THEN j ELSE j + 1]
                        EXCEPT !.current_position = j]
            /\ \A other \in QueueType \ {qt} :
                  current_queues'[other] = current_queues[other]
            /\ available_tables' = available_tables
            /\ occupied_tables' = occupied_tables
      ]_vars

\* remove_from_queue has just taken the second of three entries out of a queue
C24_Witness ==
    /\ ret.op = "remove_from_queue"
    /\ ret.val # None
    /\ ret.val[1].current_position = 2
    /\ Len(current_queues[ret.val[1].queue_type]) = 2
    /\ current_queues[ret.val[1].queue_type][2].original_position >= 2

\* C27: through the service a join puts the new entry at the back of its queue,
\* its position the length of the queue after the join; the current_position of
\* an entry that stays in its queue never increases and never exceeds its
\* original_position; and the entry call_next_customer returns is the one that
\* joined first among the entries of its queue, so that calling and completing
\* serves a queue in join order
C27_ServiceQueueIsFifo ==
    [][ /\ ret'.op = "join_queue" =>
            \A qt \in JoinTypes : JoinQueue(qt) =>
              LET n == Len(current_queues'[qt])
              IN  /\ n = Len(current_queues[qt]) + 1
                  /\ current_queues'[qt][n].queue_id = next_id
                  /\ current_queues'[qt][n].current_position = n
                  /\ current_queues'[qt][n].original_position = n
                  /\ ret'.val[1].current_position = n
                  /\ SubSeq(Ids(current_queues'[qt]), 1, n - 1) = Ids(current_queues[qt])
        /\ \A qt \in QueueType :
              /\ \A i \in 1..Len(current_queues[qt]), j \in 1..Len(current_queues'[qt]) :
                    current_queues[qt][i].queue_id = current_queues'[qt][j].queue_id =>
                      current_queues'[qt][j].current_position
                         <= current_queues[qt][i].current_position
              /\ \A j \in 1..Len(current_queues'[qt]) :
                    current_queues'[qt][j].current_position
                       <= current_queues'[qt][j].original_position
        /\ (ret'.op = "service.call_next_customer" /\ ret'.val # None) =>
              \A qt \in QueueType : ServiceCallNextCustomer(qt) =>
                \A i \in 1..Len(current_queues[qt]) :
                    ret'.val[1].queue_id <= current_queues[qt][i].queue_id
      ]_vars

\* the second of three entries that joined one queue has been called after the
\* first was completed: it joined at position 2 and is now at position 1, with
\* the third entry behind it
C27_Witness ==
    /\ ret.op = "service.call_next_customer"
    /\ ret.val # None
    /\ ret.val[1].queue_id = 2
    /\ ret.val[1].original_position = 2
    /\ ret.val[1].current_position = 1
    /\ Ids(current_queues[ret.val[1].queue_type]) = <<2, 3>>

\* C28: through the service every entry in a queue has status waiting or called;
\* an entry returned by complete_service has status completed and completed_at
\* set; an entry removed by cancel_queue_entry has status cancelled and is in no
\* queue any more
C28_StatusLifecycle ==
    [][ /\ \A qt \in QueueType : \A i \in 1..Len(current_queues'[qt]) :
              current_queues'[qt][i].status \in {WAITING, CALLED}
        /\ (ret'.op = "service.complete_service" /\ ret'.val # None) =>
              /\ ret'.val[1].status = COMPLETED
              /\ ret'.val[1].completed_at # None
              /\ ret'.val[1].queue_id \notin LiveIds'
        /\ ret'.op = "cancel_queue_entry" =>
              \A id \in LiveIds : CancelQueueEntry(id) =>
                /\ ret'.val = Some(TRUE)
                /\ CancelResult(current_queues, id).entry # None
                /\ CancelResult(current_queues, id).entry[1].queue_id = id
                /\ CancelResult(current_queues, id).entry[1].status = CANCELLED
                /\ id \notin LiveIds'
      ]_vars

\* a called entry has been completed while a waiting entry and a called entry
\* are in the queues
C28_Witness ==
    /\ ret.op = "service.complete_service"
    /\ ret.val # None
    /\ ret.val[1].called_at # None
    /\ \E qt \in QueueType : \E i \in 1..Len(current_queues[qt]) :
          current_queues[qt][i].status = CALLED
    /\ \E qt \in QueueType : \E i \in 1..Len(current_queues[qt]) :
          current_queues[qt][i].status = WAITING

\* C25: a waiting entry that has never had a queue_progress notification and is
\* two or more places ahead of the position it joined at is sent queue_progress,
\* with its position and wait time now, by the next update_queue_progress
C25_ProgressSentAfterMovingUp ==
    [][ret'.op = "update_queue_progress" =>
        (UpdateQueueProgress =>
          \A qt \in QueueType : \A i \in 1..Len(current_queues[qt]) :
            LET entry == current_queues[qt][i]
                key   == <<"queue_progress",
                           <<entry.queue_id, i,
                             (i - 1) * average_service_time + entry.estimated_prep_time>>>>
            IN  (/\ entry.status = WAITING
                 /\ entry.original_position - i >= 2
                 /\ \A k \in 1..Len(entry.notifications_sent) :
                       entry.notifications_sent[k].type # "queue_progress")
                => Sent(outbox', key[1], key[2]) = Sent(outbox, key[1], key[2]) + 1)
      ]_vars

\* C26: update_queue_progress sends ready_soon to an entry only if it is waiting
\* and at position 1 or 2, once in an invocation, and records it; the ready_soon
\* notifications recorded on an entry lie at least 10 minutes apart
C26_ReadySoonOnlyNextAndCooledDown ==
    [][ /\ ret'.op = "update_queue_progress" =>
             (UpdateQueueProgress =>
               \A qt \in QueueType : \A i \in 1..Len(current_queues[qt]) :
                 LET entry == current_queues[qt][i]
                     more  == Sent(outbox', "ready_soon", <<entry.queue_id>>)
                                - Sent(outbox, "ready_soon", <<entry.queue_id>>)
                 IN  /\ more \in {0, 1}
                     /\ more = 1 =>
                           /\ entry.status = WAITING
                           /\ i \in {1, 2}
                           /\ current_queues'[qt][i].notifications_sent =
                                 Append(entry.notifications_sent,
                                        [type |-> "ready_soon", sent_at |-> now]))
        /\ \A qt \in QueueType : \A i \in 1..Len(current_queues'[qt]) :
             LET sent == current_queues'[qt][i].notifications_sent
             IN  \A k, l \in 1..Len(sent) :
                   (k < l /\ sent[k].type = "ready_soon" /\ sent[l].type = "ready_soon")
                     => sent[l].sent_at - sent[k].sent_at >= 10
      ]_vars

\* update_queue_progress has run with a waiting entry at position 2 that was
\* sent ready_soon twice, a called entry at position 1 and a waiting entry at
\* position 3 that were never sent it
C26_Witness ==
    /\ ret.op = "update_queue_progress"
    /\ \E qt \in QueueType :
          /\ Len(current_queues[qt]) >= 3
          /\ Cardinality({k \in 1..Len(current_queues[qt][2].notifications_sent) :
                 current_queues[qt][2].notifications_sent[k].type = "ready_soon"}) = 2
          /\ Sent(outbox, "ready_soon", <<current_queues[qt][2].queue_id>>) = 2
          /\ current_queues[qt][1].status = CALLED
          /\ Sent(outbox, "ready_soon", <<current_queues[qt][1].queue_id>>) = 0
          /\ current_queues[qt][3].status = WAITING
          /\ Sent(outbox, "ready_soon", <<current_queues[qt][3].queue_id>>) = 0

\* the context get_session_context(session_id) returns in this state
ContextOf(cm, session_id) ==
    LET r == GetSessionContextResult(cm, session_id, cm.redis_client)
    IN  Dumped(r.cm, r.context)

\* the step is one of the four changing operations on this session
ChangesSession(session_id) ==
    \E up \in ServerAnswers :
        \/ UpdateConversationHistory(session_id, up)
        \/ \E price \in Prices : AddOrderItem(session_id, price, up)
        \/ \E item_id \in IssuedIds : RemoveOrderItem(session_id, item_id, up)
        \/ \E preferences \in PreferenceInputs :
              UpdateCustomerPreferences(session_id, preferences, up)

\* C29: with sessions a and b initialized, update_conversation_history,
\* add_order_item, remove_order_item and update_customer_preferences on a leave
\* the history, order and preferences of b as they were, and initialize_session
\* returns a context with an empty history, an empty order and no preferences
C29_SessionsIsolated ==
    [][ /\ ret'.op \in {"update_conversation_history", "add_order_item",
                        "remove_order_item", "update_customer_preferences"} =>
             \A a \in SessionIds : \A b \in SessionIds \ {a} :
                 (sessions[a].initialized /\ sessions[b].initialized /\ ChangesSession(a))
                   => ContextOf(context_manager', b) = ContextOf(context_manager, b)
        /\ ret'.op = "initialize_session" => ret'.val = Some(default_context)
      ]_vars

\* the conversation history stored for a session: under its key in Redis, or in
\* the dict the in-memory store holds for it; None when nothing is stored
StoredHistory(session_id) ==
    LET cm == context_manager
    IN  IF cm.redis_client
        THEN IF session_id \in DOMAIN cm.redis
             THEN Some(cm.redis[session_id].conversation_history) ELSE None
        ELSE IF cm.memory_store # None /\ session_id \in DOMAIN cm.memory_store[1]
             THEN Some(FieldValue(cm, cm.memory_store[1][session_id],
                                  "conversation_history"))
             ELSE None

\* the last messages added to a session, HistoryLimit of them at most, in order
LastAdded(session_id) ==
    LET n == sessions[session_id].messages
        m == IF n < HistoryLimit THEN n ELSE HistoryLimit
    IN  [i \in 1..m |-> [role |-> "user", content |-> <<session_id, n - m + i>>]]

\* C30: the conversation history stored for a session holds at most 20 messages,
\* the last ones added to the session, in the order they were added
C30_HistoryIsLastTwenty ==
    \A s \in HistorySessions :
        StoredHistory(s) # None =>
            /\ Len(StoredHistory(s)[1]) <= HistoryLimit
            /\ StoredHistory(s)[1] = LastAdded(s)
====
